---- MODULE Spec2Model ----
(***************************************************************************)
(* The dialect generator of macro/src/dialect.rs: one generation run       *)
(* (generate_dialect -> generate_dialect_module ->                         *)
(* generate_operation_enum) as a step machine, and the behaviour of the    *)
(* dispatch enum it emits (try_new / as_operation / clone) on generic      *)
(* operation handles.                                                      *)
(*                                                                         *)
(* Strings are sequences of bytes.  An Option is a sequence of length 0    *)
(* (None) or 1 (Some).                                                     *)
(***************************************************************************)
EXTENDS Integers, Sequences, FiniteSets, TLC

VARIABLES input, schema, env, run, rt

vars == <<input, schema, env, run, rt>>

\* Bounds of the model.
MaxOps == 3
MaxBody == 2
MaxOpsTwice == 2

Runs == {1, 2}

----------------------------------------------------------------------------
\* The schema: Dialect records and Op records.

DialectDefs == {"A_Dialect", "B_Dialect"}

\* The `name` field of a Dialect record ("a", "b").
DialectNameField(d) == IF d = "A_Dialect" THEN <<97>> ELSE <<98>>

\* The namespace names a request can carry ("a", "b", "c"); no record is "c".
RequestNames == {<<97>>, <<98>>, <<99>>}

\* The `opName` field of the i-th Op record ("1", "2", ...).
OpNameField(i) == <<48 + i>>

\* The i-th Op record of a schema: its def name, its opDialect, its opName and
\* whether Operation::new accepts it.
OpRecord(s, i) ==
  [def |-> i, opDialect |-> s[i].opDialect, opName |-> OpNameField(i), ok |-> s[i].ok]

Schemas ==
  UNION { [1..n -> [opDialect : DialectDefs, ok : BOOLEAN]] : n \in 0..MaxOps }

Perms(n) == { p \in [1..n -> 1..n] : \A i, j \in 1..n : p[i] = p[j] => i = j }

\* The record keepers a parse of schema s can hand out: the Dialect records
\* and the Op records in one enumeration order, fixed for that keeper.
Keepers(s) ==
  { [dialects |-> <<"A_Dialect", "B_Dialect">>,
     ops |-> [i \in 1..Len(s) |-> OpRecord(s, p[i])]] : p \in Perms(Len(s)) }

\* A parser that was given no source holds no record.
EmptyKeeper == [dialects |-> <<>>, ops |-> <<>>]

\* record_keeper.all_derived_definitions(class)
all_derived_definitions(keeper, class) ==
  IF class = "Op" THEN keeper.ops ELSE keeper.dialects

----------------------------------------------------------------------------
\* Operation models.

\* "{namespace}.{short_name}"
full_operation_name(rec) == DialectNameField(rec.opDialect) \o <<46>> \o rec.opName

\* Operation::new(record): the model of one Op record.
OperationNew(rec) ==
  [name |-> rec.def, dialect_name |-> rec.opDialect, full |-> full_operation_name(rec)]

Min(S) == CHOOSE x \in S : \A y \in S : x <= y

\* A mutation of CollectModels: records that fail to build are skipped.
CollectModelsSkipping(ops) ==
  [ok |-> TRUE,
   models |-> LET good == SelectSeq(ops, LAMBDA rec : rec.ok)
              IN  [i \in 1..Len(good) |-> OperationNew(good[i])],
   culprit |-> 0]

\* .map(Operation::new).collect::<Result<Vec<_>, _>>(): every model, or the
\* error of the first record (in enumeration order) that fails to build.
CollectModels(ops) ==
  LET bad == { i \in 1..Len(ops) : ~ops[i].ok }
  IN  IF bad = {}
      THEN [ok |-> TRUE,
            models |-> [i \in 1..Len(ops) |-> OperationNew(ops[i])],
            culprit |-> 0]
      ELSE [ok |-> FALSE, models |-> <<>>, culprit |-> ops[Min(bad)].def]

\* A mutation of FilterDialect: the order of the kept models is reversed.
FilterDialectReversed(models, dialect_name) ==
  LET kept == SelectSeq(models, LAMBDA m : m.dialect_name = dialect_name)
  IN  [i \in 1..Len(kept) |-> kept[Len(kept) + 1 - i]]

\* .filter(|operation| operation.dialect_name() == dialect_name)
FilterDialect(models, dialect_name) ==
  SelectSeq(models, LAMBDA m : m.dialect_name = dialect_name)

\* generate_operation(operation): the typed wrapper of one operation.
generate_operation(m) == [ident |-> m.name, full |-> m.full]

----------------------------------------------------------------------------
\* generate_operation_enum

\* A mutation of Retain: nothing is filtered out.
RetainAll(models, dialect_name) == models

\* operations.retain(|operation| operation.dialect_name() == dialect_name)
Retain(models, dialect_name) ==
  SelectSeq(models, LAMBDA m : m.dialect_name = dialect_name)

\* A mutation of match_arms: every arm builds the first operation's variant.
match_arms_first(operations) ==
  [i \in 1..Len(operations) |->
     [full |-> operations[i].full,
      variant |-> operations[1].name, wrapper |-> operations[1].name]]

\* #full_name => Ok(#enum_name::#ident(#ident::try_from(operation.clone()).expect(..)))
match_arms(operations) ==
  [i \in 1..Len(operations) |->
     [full |-> operations[i].full,
      variant |-> operations[i].name, wrapper |-> operations[i].name]]

\* #enum_ident::#ident(op) => op.as_operation()
raw_match_arms(operations) ==
  [i \in 1..Len(operations) |-> [variant |-> operations[i].name]]

\* A mutation of clone_match_arms: every arm rebuilds the first variant.
clone_match_arms_first(operations) ==
  [i \in 1..Len(operations) |->
     [variant |-> operations[i].name,
      ctor_variant |-> operations[1].name, ctor_wrapper |-> operations[1].name]]

\* #enum_ident::#ident(op) => #enum_ident::#ident(#ident { operation: op.as_operation().clone() })
clone_match_arms(operations) ==
  [i \in 1..Len(operations) |->
     [variant |-> operations[i].name,
      ctor_variant |-> operations[i].name, ctor_wrapper |-> operations[i].name]]

\* #operation(#operation<'b>)
operation_enum(operations) ==
  [i \in 1..Len(operations) |-> [variant |-> operations[i].name, wraps |-> operations[i].name]]

\* impl From<#ident> for #enum_ident { .. #enum_ident::#ident(op) }
from_impls(operations) ==
  [i \in 1..Len(operations) |-> [from |-> operations[i].name, variant |-> operations[i].name]]

\* A mutation of EnumDefinition: an enum is emitted even without variants.
EnumDefinitionAlways(enum_name, operations) ==
  << [name |-> enum_name,
      variants |-> operation_enum(operations),
      match_arms |-> match_arms(operations),
      raw_match_arms |-> raw_match_arms(operations),
      clone_match_arms |-> clone_match_arms(operations),
      from_impls |-> from_impls(operations)] >>

\* if operation_enum.is_empty() { Ok(None) } else { Ok(Some(enum_definition)) }
EnumDefinition(enum_name, operations) ==
  IF Len(operation_enum(operations)) = 0
  THEN << >>
  ELSE << [name |-> enum_name,
           variants |-> operation_enum(operations),
           match_arms |-> match_arms(operations),
           raw_match_arms |-> raw_match_arms(operations),
           clone_match_arms |-> clone_match_arms(operations),
           from_impls |-> from_impls(operations)] >>

\* generate_operation_enum(dialect_name, record_keeper)
generate_operation_enum(dialect_name, keeper) ==
  LET built == CollectModels(all_derived_definitions(keeper, "Op"))
  IN  IF ~built.ok
      THEN [ok |-> FALSE, culprit |-> built.culprit, enum |-> << >>]
      ELSE [ok |-> TRUE, culprit |-> 0,
            enum |-> EnumDefinition(dialect_name, Retain(built.models, dialect_name))]

----------------------------------------------------------------------------
\* The generated dispatch enum at run time.

\* The names a generic operation handle can carry: every qualified name a
\* schema can declare, a name no schema declares ("c.1"), and a name that is
\* not valid UTF-8.
HandleNames ==
  { DialectNameField(d) \o <<46>> \o OpNameField(i) : d \in DialectDefs, i \in 1..MaxOps }
    \cup { <<99, 46, 49>>, <<255, 46, 49>> }

\* A generic operation handle: its name and its operand/result/attribute values.
Handles == [name : HandleNames, body : 1..MaxBody]

\* operation.name().as_string_ref().as_str(): Ok for valid UTF-8 only (of the
\* bytes used here, exactly those below 128).
as_str(bytes) ==
  IF \A i \in 1..Len(bytes) : bytes[i] < 128
  THEN [ok |-> TRUE, str |-> bytes]
  ELSE [ok |-> FALSE, str |-> << >>]

\* Operation::clone of the generic handle: an equivalent handle of the same
\* underlying operation.
HandleClone(h) == h

\* #ident::try_from(operation): the wrapper's fallible conversion, by
\* qualified name.
WrapperTryFrom(wrappers, ident, h) ==
  LET w == CHOOSE x \in { wrappers[i] : i \in 1..Len(wrappers) } : x.ident = ident
  IN  IF h.name = w.full
      THEN [ok |-> TRUE, value |-> << [ty |-> ident, operation |-> h] >>]
      ELSE [ok |-> FALSE, value |-> << >>]

\* op.as_operation() of a typed wrapper.
WrapperAsOperation(w) == w.operation

\* A match takes the first of the arms whose pattern matches (hit: their
\* positions), or none (0).
FirstArm(hit) == IF hit = {} THEN 0 ELSE Min(hit)

\* pub fn try_new(operation) -> Result<Self, Operation>
try_new(enum, wrappers, h) ==
  LET s == as_str(h.name)
  IN  IF ~s.ok
      THEN [kind |-> "panic", why |-> "unwrap", value |-> << >>, operation |-> << >>]
      ELSE LET k == FirstArm({ i \in 1..Len(enum.match_arms) : enum.match_arms[i].full = s.str })
           IN  IF k = 0
               THEN [kind |-> "Err", why |-> "", value |-> << >>, operation |-> <<h>>]
               ELSE LET arm == enum.match_arms[k]
                        conv == WrapperTryFrom(wrappers, arm.wrapper, HandleClone(h))
                    IN  IF ~conv.ok
                        THEN [kind |-> "panic", why |-> "expect",
                              value |-> << >>, operation |-> << >>]
                        ELSE [kind |-> "Ok", why |-> "",
                              value |-> << [tag |-> arm.variant, op |-> conv.value[1]] >>,
                              operation |-> << >>]

\* pub fn as_operation(&self) -> &Operation
as_operation(enum, e) ==
  LET k == FirstArm({ i \in 1..Len(enum.raw_match_arms) : enum.raw_match_arms[i].variant = e.tag })
  IN  IF k = 0 THEN << >> ELSE << WrapperAsOperation(e.op) >>

\* fn clone(&self) -> Self
clone(enum, e) ==
  LET k == FirstArm({ i \in 1..Len(enum.clone_match_arms) : enum.clone_match_arms[i].variant = e.tag })
  IN  IF k = 0
      THEN << >>
      ELSE LET arm == enum.clone_match_arms[k]
           IN  << [tag |-> arm.ctor_variant,
                   op |-> [ty |-> arm.ctor_wrapper,
                           operation |-> HandleClone(WrapperAsOperation(e.op))]] >>

----------------------------------------------------------------------------
\* One generation run.

NoResult == [kind |-> "pending", module |-> << >>, err |-> << >>]

FreshRun ==
  [pc |-> "add_source", keeper |-> EmptyKeeper, dialect |-> << >>,
   dialect_name |-> << >>, operations |-> << >>, enum |-> << >>,
   steps |-> << >>, result |-> NoResult]

FreshRt == [pc |-> "idle", h |-> << >>, res |-> << >>, up |-> << >>, cl |-> << >>]

\* What the external collaborators answer is fixed by the input: the first
\* time a question is asked the answer is chosen, later it is repeated.
Questions == {"add_source", "parse", "dialect_name", "doc", "ident"}

Answers(q) == IF env[q] = "unset" THEN {"ok", "fail"} ELSE {env[q]}

Init ==
  /\ input \in [name : RequestNames, hasFiles : BOOLEAN]
  /\ schema \in Schemas
  /\ env = [q \in Questions |-> "unset"]
  /\ run = [r \in Runs |-> FreshRun]
  /\ rt = FreshRt

Error(type, step, culprit) ==
  [type |-> type, step |-> step, culprit |-> culprit, names |-> {}]

\* parser.add_source(..)?: the parser's own error, converted by `?` into the
\* boxed error the entry point returns.
AddSourceError == Error("tblgen::Error", "add_source", 0)

\* A mutation of ParseError: the parser's error is returned as it is.
ParseErrorRaw == Error("tblgen::Error", "parse", 0)

\* parser.parse().map_err(Error::Parse)?
ParseError == Error("Error::Parse", "parse", 0)

\* The run ends with Err(e) at `step`.
Fail(r, step, e) ==
  run' = [run EXCEPT ![r] = [@ EXCEPT !.pc = "done",
                                      !.steps = Append(@, step),
                                      !.result = [kind |-> "err", module |-> << >>,
                                                  err |-> <<e>>]]]

\* if input.files().count() > 0 { parser = parser.add_source(..)?; }
AddSource(r) ==
  /\ run[r].pc = "add_source"
  /\ UNCHANGED <<input, schema, rt>>
  /\ IF input.hasFiles
     THEN \E a \in Answers("add_source") :
            /\ env' = [env EXCEPT !["add_source"] = a]
            /\ IF a = "ok"
               THEN run' = [run EXCEPT ![r] = [@ EXCEPT !.pc = "parse",
                                                        !.steps = Append(@, "add_source")]]
               ELSE Fail(r, "add_source", AddSourceError)
     ELSE /\ run' = [run EXCEPT ![r] = [@ EXCEPT !.pc = "parse"]]
          /\ UNCHANGED env

\* let keeper = parser.parse().map_err(Error::Parse)?;
Parse(r) ==
  /\ run[r].pc = "parse"
  /\ UNCHANGED <<input, schema, rt>>
  /\ \E a \in Answers("parse") :
       /\ env' = [env EXCEPT !["parse"] = a]
       /\ IF a = "ok"
          THEN \E k \in (IF input.hasFiles THEN Keepers(schema) ELSE {EmptyKeeper}) :
                 run' = [run EXCEPT ![r] = [@ EXCEPT !.pc = "find",
                                                     !.keeper = k,
                                                     !.steps = Append(@, "parse")]]
          ELSE Fail(r, "parse", ParseError)

\* A mutation of FindRecord: without a match the first Dialect record is taken.
FindRecordOrFirst(keeper, name) ==
  LET ds == all_derived_definitions(keeper, "Dialect")
      k == FirstArm({ i \in 1..Len(ds) : DialectNameField(ds[i]) = name })
  IN  IF k = 0 THEN (IF Len(ds) = 0 THEN << >> ELSE << ds[1] >>) ELSE << ds[k] >>

\* keeper.all_derived_definitions("Dialect")
\*     .find(|definition| definition.str_value("name") == Ok(input.name()))
FindRecord(keeper, name) ==
  LET ds == all_derived_definitions(keeper, "Dialect")
      k == FirstArm({ i \in 1..Len(ds) : DialectNameField(ds[i]) = name })
  IN  IF k = 0 THEN << >> ELSE << ds[k] >>

\* .ok_or_else(|| create_syn_error("dialect not found"))?
FindDialect(r) ==
  /\ run[r].pc = "find"
  /\ UNCHANGED <<input, schema, env, rt>>
  /\ LET found == FindRecord(run[r].keeper, input.name)
     IN  IF found = << >>
         THEN Fail(r, "find", Error("syn::Error: dialect not found", "find", 0))
         ELSE run' = [run EXCEPT ![r] = [@ EXCEPT !.pc = "dialect_name",
                                                  !.dialect = found,
                                                  !.steps = Append(@, "find")]]

\* let dialect_name = dialect.name()?;
DialectName(r) ==
  /\ run[r].pc = "dialect_name"
  /\ UNCHANGED <<input, schema, rt>>
  /\ \E a \in Answers("dialect_name") :
       /\ env' = [env EXCEPT !["dialect_name"] = a]
       /\ IF a = "ok"
          THEN run' = [run EXCEPT ![r] = [@ EXCEPT !.pc = "build",
                                                   !.dialect_name = run[r].dialect,
                                                   !.steps = Append(@, "dialect_name")]]
          ELSE Fail(r, "dialect_name", Error("Error", "dialect_name", 0))

\* record_keeper.all_derived_definitions("Op").map(Operation::new)
\*     .collect::<Result<Vec<_>, _>>()?
\*     .iter().filter(..).map(generate_operation).collect::<Vec<_>>()
BuildOperations(r) ==
  /\ run[r].pc = "build"
  /\ UNCHANGED <<input, schema, env, rt>>
  /\ LET built == CollectModels(all_derived_definitions(run[r].keeper, "Op"))
     IN  IF ~built.ok
         THEN Fail(r, "build", Error("Error", "build", built.culprit))
         ELSE LET kept == FilterDialect(built.models, run[r].dialect_name[1])
              IN  run' = [run EXCEPT ![r] =
                            [@ EXCEPT !.pc = "doc",
                                      !.operations =
                                         [i \in 1..Len(kept) |-> generate_operation(kept[i])],
                                      !.steps = Append(@, "build")]]

\* sanitize_documentation(dialect.str_value("description").unwrap_or(""))?
Doc(r) ==
  /\ run[r].pc = "doc"
  /\ UNCHANGED <<input, schema, rt>>
  /\ \E a \in Answers("doc") :
       /\ env' = [env EXCEPT !["doc"] = a]
       /\ IF a = "ok"
          THEN run' = [run EXCEPT ![r] = [@ EXCEPT !.pc = "ident",
                                                   !.steps = Append(@, "doc")]]
          ELSE Fail(r, "doc", Error("Error", "doc", 0))

\* let name = sanitize_snake_case_identifier(name)?;
Ident(r) ==
  /\ run[r].pc = "ident"
  /\ UNCHANGED <<input, schema, rt>>
  /\ \E a \in Answers("ident") :
       /\ env' = [env EXCEPT !["ident"] = a]
       /\ IF a = "ok"
          THEN run' = [run EXCEPT ![r] = [@ EXCEPT !.pc = "enum",
                                                   !.steps = Append(@, "ident")]]
          ELSE Fail(r, "ident", Error("Error", "ident", 0))

\* let enum_definition = generate_operation_enum(dialect_name, record_keeper)?;
GenerateEnum(r) ==
  /\ run[r].pc = "enum"
  /\ UNCHANGED <<input, schema, env, rt>>
  /\ LET g == generate_operation_enum(run[r].dialect_name[1], run[r].keeper)
     IN  IF ~g.ok
         THEN Fail(r, "enum", Error("Error", "enum", g.culprit))
         ELSE run' = [run EXCEPT ![r] = [@ EXCEPT !.pc = "emit",
                                                  !.enum = g.enum,
                                                  !.steps = Append(@, "enum")]]

\* Ok(quote! { pub mod #name { #(#operations)* #enum_definition } })
Emit(r) ==
  /\ run[r].pc = "emit"
  /\ UNCHANGED <<input, schema, env, rt>>
  /\ run' = [run EXCEPT ![r] =
               [@ EXCEPT !.pc = "done",
                         !.steps = Append(@, "emit"),
                         !.result = [kind |-> "ok",
                                     module |-> << [name |-> input.name,
                                                    operations |-> run[r].operations,
                                                    enum |-> run[r].enum] >>,
                                     err |-> << >>]]]

\* pub fn generate_dialect(input: DialectInput)
generate_dialect(r) ==
  \/ AddSource(r)
  \/ Parse(r)
  \/ FindDialect(r)
  \/ DialectName(r)
  \/ BuildOperations(r)
  \/ Doc(r)
  \/ Ident(r)
  \/ GenerateEnum(r)
  \/ Emit(r)

----------------------------------------------------------------------------
\* Using the module the first run generated.

Generated == run[1].result.module[1]

HasEnum ==
  /\ run[1].result.kind = "ok"
  /\ Generated.enum # << >>

\* <Dialect>Operation::try_new(h)
TryNew ==
  /\ HasEnum
  /\ rt.pc = "idle"
  /\ \E h \in Handles :
       rt' = [rt EXCEPT !.pc = "tried", !.h = <<h>>,
                        !.res = << try_new(Generated.enum[1], Generated.operations, h) >>]
  /\ UNCHANGED <<input, schema, env, run>>

\* e.as_operation() of the variant try_new returned
AsOperation ==
  /\ rt.pc = "tried"
  /\ rt.res[1].kind = "Ok"
  /\ rt' = [rt EXCEPT !.pc = "upcast",
                      !.up = as_operation(Generated.enum[1], rt.res[1].value[1])]
  /\ UNCHANGED <<input, schema, env, run>>

\* e.clone() of the variant try_new returned
Clone ==
  /\ rt.pc = "tried"
  /\ rt.res[1].kind = "Ok"
  /\ rt' = [rt EXCEPT !.pc = "cloned",
                      !.cl = clone(Generated.enum[1], rt.res[1].value[1])]
  /\ UNCHANGED <<input, schema, env, run>>

Next ==
  \/ generate_dialect(1)
  \/ TryNew
  \/ AsOperation
  \/ Clone

Spec == Init /\ [][Next]_vars

\* The engine run twice, one run after the other, on the same input.
NextTwice ==
  \E r \in Runs :
    /\ r = 2 => run[1].pc = "done"
    /\ generate_dialect(r)

InitTwice ==
  /\ Init
  /\ Len(schema) <= MaxOpsTwice

SpecTwice == InitTwice /\ [][NextTwice]_vars

----------------------------------------------------------------------------
\* What the claims are stated in.

Done(r) == run[r].pc = "done"

Succeeded(r) == Done(r) /\ run[r].result.kind = "ok"

Failed(r) == Done(r) /\ run[r].result.kind = "err"

Range(f) == { f[i] : i \in DOMAIN f }

IsPrefix(s, t) == Len(s) <= Len(t) /\ \A i \in 1..Len(s) : s[i] = t[i]

\* The steps of a run, in the order of the code.
StepOrder ==
  (IF input.hasFiles THEN <<"add_source">> ELSE << >>)
    \o <<"parse", "find", "dialect_name", "build", "doc", "ident", "enum", "emit">>

\* The Op records of a keeper that belong to Dialect record d, in the keeper's
\* enumeration order.
TargetRecords(keeper, d) == SelectSeq(keeper.ops, LAMBDA rec : rec.opDialect = d)

TargetIdents(keeper, d) ==
  LET t == TargetRecords(keeper, d) IN [i \in 1..Len(t) |-> t[i].def]

Idents(operations) == [i \in 1..Len(operations) |-> operations[i].ident]

\* The namespace names the Dialect records of a keeper declare.
KnownNames(keeper) == { DialectNameField(d) : d \in Range(keeper.dialects) }

\* The run looked the requested name up in the parsed schema and no Dialect
\* record carries it.
NamespaceAbsent(r) ==
  /\ Done(r)
  /\ "find" \in Range(run[r].steps)
  /\ input.name \notin KnownNames(run[r].keeper)

\* The handle given to try_new carries the qualified name of an operation the
\* namespace declares.
Declared(h) ==
  \E rec \in Range(TargetRecords(run[1].keeper, run[1].dialect_name[1])) :
    full_operation_name(rec) = h.name

----------------------------------------------------------------------------
\* C1: try_new is total: whatever handle it is given, it returns Ok with the
\* one variant whose qualified name is the handle's, or Err with the handle
\* itself, and it never panics.
C1_TryNewTotal ==
  rt.pc = "tried" =>
    LET res == rt.res[1]
        h == rt.h[1]
    IN  /\ res.kind # "panic"
        /\ res.kind = "Ok" => /\ Declared(h)
                              /\ res.value[1].op.operation = h
        /\ res.kind = "Err" => /\ ~Declared(h)
                               /\ res.operation = <<h>>

\* C2: round trip: a handle that carries the qualified name of an operation
\* of the namespace is downcast by try_new to a variant, and as_operation of
\* that variant is a handle with the same name and the same contents.
C2_RoundTrip ==
  (rt.pc # "idle" /\ Declared(rt.h[1])) =>
    /\ rt.res[1].kind = "Ok"
    /\ rt.pc = "upcast" => /\ Len(rt.up) = 1
                           /\ rt.up[1].name = rt.h[1].name
                           /\ rt.up[1].body = rt.h[1].body

\* A round trip through a variant that is not the first of its enum.
C2_Witness ==
  /\ rt.pc = "upcast"
  /\ Declared(rt.h[1])
  /\ Len(Generated.enum[1].variants) >= 2
  /\ rt.res[1].value[1].tag # Generated.enum[1].variants[1].variant

\* C3: a namespace without operations gets no dispatch enum and its module is
\* emitted all the same; a namespace with operations gets exactly one enum.
C3_EnumIffOperations ==
  \A r \in Runs :
    LET n == Len(TargetRecords(run[r].keeper, run[r].dialect_name[1]))
    IN  /\ run[r].pc = "emit" => (run[r].enum = << >> <=> n = 0)
        /\ Succeeded(r) =>
             /\ Len(run[r].result.module) = 1
             /\ Len(run[r].result.module[1].enum) = (IF n = 0 THEN 0 ELSE 1)
        /\ Failed(r) => run[r].result.err[1].step # "enum"

\* A module emitted for a namespace that has a Dialect record and no operation,
\* while the schema declares operations of another namespace.
C3_Witness ==
  /\ Succeeded(1)
  /\ Generated.enum = << >>
  /\ Generated.operations = << >>
  /\ Len(run[1].keeper.ops) >= 1

\* C4: a run takes its steps in the order of the code and ends either with
\* the complete module or with the error of the first step that failed, having
\* taken no step after it and returning no module.
C4_ModuleOrFirstError ==
  \A r \in Runs :
    /\ IsPrefix(run[r].steps, StepOrder)
    /\ ~Done(r) => run[r].result = NoResult
    /\ Done(r) =>
         \/ /\ run[r].result.kind = "ok"
            /\ run[r].steps = StepOrder
            /\ run[r].result.err = << >>
            /\ Len(run[r].result.module) = 1
            /\ \A rec \in Range(run[r].keeper.ops) : rec.ok
            /\ Idents(run[r].result.module[1].operations)
                 = TargetIdents(run[r].keeper, run[r].dialect_name[1])
         \/ /\ run[r].result.kind = "err"
            /\ run[r].result.module = << >>
            /\ Len(run[r].result.err) = 1
            /\ Len(run[r].steps) >= 1
            /\ run[r].result.err[1].step = run[r].steps[Len(run[r].steps)]
            /\ run[r].result.err[1].step # "emit"

\* A run that failed while building the operation models, after four steps
\* that succeeded.
C4_Witness ==
  /\ Failed(1)
  /\ run[1].result.err[1].step = "build"
  /\ Len(run[1].steps) = 5
  /\ \E rec \in Range(run[1].keeper.ops) : rec.ok

\* C5 as claimed: when no Dialect record carries the requested name the run
\* fails, returns no module, and the error lists the namespace names the
\* schema knows.
C5_NotFoundListsKnown ==
  NamespaceAbsent(1) =>
    /\ run[1].result.kind = "err"
    /\ run[1].result.module = << >>
    /\ run[1].result.err[1].step = "find"
    /\ run[1].result.err[1].names = KnownNames(run[1].keeper)

\* C5 as amended: when no Dialect record carries the requested name the run
\* fails at the lookup with the fixed message "dialect not found", returns no
\* module, and the error names no namespace.
C5_NotFoundFixedMessage ==
  NamespaceAbsent(1) =>
    /\ run[1].result.kind = "err"
    /\ run[1].result.module = << >>
    /\ run[1].result.err[1].step = "find"
    /\ run[1].result.err[1].type = "syn::Error: dialect not found"
    /\ run[1].result.err[1].names = {}

\* The requested namespace is absent from a schema that declares others.
C5_Witness ==
  /\ NamespaceAbsent(1)
  /\ KnownNames(run[1].keeper) # {}

C7_IngestionErrorsWrapped ==
  (Failed(1) /\ run[1].result.err[1].step \in {"add_source", "parse"}) =>
    run[1].result.err[1].type \in {"Error::Parse", "Error"}

\* C7 as amended: a failure of parsing reaches the caller wrapped in the
\* generator's Error::Parse; a failure of add_source reaches the caller as the
\* parser's own error.
C7_ParseWrappedAddSourceRaw ==
  Failed(1) =>
    /\ run[1].result.err[1].step = "parse" =>
         run[1].result.err[1].type = "Error::Parse"
    /\ run[1].result.err[1].step = "add_source" =>
         run[1].result.err[1].type = "tblgen::Error"

\* A run that ended in a failure of parsing, after add_source succeeded.
C7_Witness ==
  /\ Failed(1)
  /\ run[1].result.err[1].step = "parse"
  /\ run[1].steps = <<"add_source", "parse">>

\* C8: clone maps every variant to the same variant around the same
\* underlying operation, and leaves the cloned value as it was.
C8_ClonePreserves ==
  rt.pc = "cloned" =>
    LET e == rt.res[1].value[1]
        enum == Generated.enum[1]
    IN  /\ Len(rt.cl) = 1
        /\ rt.cl[1].tag = e.tag
        /\ as_operation(enum, e) # << >>
        /\ as_operation(enum, rt.cl[1]) = as_operation(enum, e)
        /\ rt.res[1] = try_new(enum, Generated.operations, rt.h[1])

\* A clone of a variant that is not the first of its enum.
C8_Witness ==
  /\ rt.pc = "cloned"
  /\ Len(rt.cl) = 1
  /\ rt.res[1].value[1].tag # Generated.enum[1].variants[1].variant

\* C9: only the operations of the target namespace are built, so the record
\* a model-building failure is about belongs to the target namespace.
C9_OnlyTargetOpsBuilt ==
  (Failed(1) /\ run[1].result.err[1].step \in {"build", "enum"}) =>
    \E rec \in Range(run[1].keeper.ops) :
      /\ rec.def = run[1].result.err[1].culprit
      /\ rec.opDialect = run[1].dialect_name[1]

\* C10: in a generated module the variants of the enum, the arms of try_new,
\* as_operation and clone and the From impls are, one for one and in the same
\* order, the wrappers the module defines.
C10_VariantsAreWrappers ==
  \A r \in Runs :
    (Succeeded(r) /\ run[r].result.module[1].enum # << >>) =>
      LET m == run[r].result.module[1]
          e == m.enum[1]
          w == Idents(m.operations)
          col(arms, f(_)) == [i \in 1..Len(arms) |-> f(arms[i])]
      IN  /\ \A i, j \in 1..Len(w) : w[i] = w[j] => i = j
          /\ col(e.variants, LAMBDA a : a.variant) = w
          /\ col(e.variants, LAMBDA a : a.wraps) = w
          /\ col(e.match_arms, LAMBDA a : a.variant) = w
          /\ col(e.match_arms, LAMBDA a : a.wrapper) = w
          /\ col(e.match_arms, LAMBDA a : a.full) = [i \in 1..Len(w) |-> m.operations[i].full]
          /\ col(e.raw_match_arms, LAMBDA a : a.variant) = w
          /\ col(e.clone_match_arms, LAMBDA a : a.variant) = w
          /\ col(e.clone_match_arms, LAMBDA a : a.ctor_variant) = w
          /\ col(e.clone_match_arms, LAMBDA a : a.ctor_wrapper) = w
          /\ col(e.from_impls, LAMBDA a : a.from) = w
          /\ col(e.from_impls, LAMBDA a : a.variant) = w

\* A module of two wrappers and two variants generated from a schema that
\* also declares an operation of another namespace.
C10_Witness ==
  /\ Succeeded(1)
  /\ Len(Generated.operations) = 2
  /\ Len(Generated.enum) = 1
  /\ Len(run[1].keeper.ops) = 3

====
